---------------------------- MODULE Spec2Model ----------------------------
(***************************************************************************)
(* SiteSentinel: the scoring/aggregation core (Score Calculation           *)
(* Utilities), the category checkers that feed it and the /api/analyze     *)
(* route that orchestrates them.                                           *)
(*                                                                         *)
(* Numbers.  Severity weights (3, 2, 1, 0.5) and category weights          *)
(* (3, 2, 1.5, 1) have halves, so every weight is carried DOUBLED          *)
(* (6, 4, 2, 1 and 6, 4, 3, 2).  A quotient sum/weight is unchanged when   *)
(* numerator and denominator are both doubled, so Math.round sees the same *)
(* value.  JavaScript's null and undefined are the sentinels null and      *)
(* undefined below, both outside 0..100.                                   *)
(***************************************************************************)
EXTENDS Integers, Sequences, FiniteSets, TLC

VARIABLES
    \* --- a category checker collecting checks and scoring them
    checks,        \* the checker's `checks` array
    score,         \* what calculateCategoryScore(checks) returned
    spc,           \* "collect" | "scored"
    \* --- the Overall Aggregator applied to a list of CategoryResults
    categories,    \* the `categories` argument
    overall,       \* what calculateOverallScore(categories) returned
    apc,           \* "collect" | "aggregated"
    argument,      \* the value that was passed as `categories` (undefined before the call)
    \* --- one POST /api/analyze request
    scoreModule,   \* which Score Calculation Utilities module the require resolves to
    promise,       \* checker -> "pending" | "fulfilled" | "rejected"
    settled,       \* checker -> what safeCheck returned for it (NoResult while pending)
    response,      \* the response sent (NoResponse before)
    rpc,           \* "idle" | "checking" | "done"
    \* --- the score-to-label function applied to a score
    labelScore,    \* the `score` argument of getScoreLabel
    label,         \* what getScoreLabel(score) returned ("" before the call)
    \* --- POST /api/analyze requests in flight together
    reqpc,         \* request -> "idle" | "checking" | "done"
    site,          \* request -> what its URL's site does to each checker
    cells,         \* storage cell -> the promises and safeCheck results held in it
    responses,     \* request -> the response sent for it
    \* --- one run of the legacy URLAnalyzer
    legacyResults, \* this.results: the summary counters and the categories
    runner,        \* run*Checks method -> "idle" | "running" | "done"
    legacyPc       \* "idle" | "running" | "returned"

scorerVars == <<checks, score, spc>>
aggVars    == <<categories, overall, apc, argument>>
routeVars  == <<scoreModule, promise, settled, response, rpc>>
labelVars  == <<labelScore, label>>
concVars   == <<reqpc, site, cells, responses>>
legacyVars == <<legacyResults, runner, legacyPc>>
vars       == <<checks, score, spc, categories, overall, apc, argument,
                scoreModule, promise, settled, response, rpc, labelScore, label,
                reqpc, site, cells, responses, legacyResults, runner, legacyPc>>

-----------------------------------------------------------------------------
(* Bounds of the model *)

MaxChecks == 3
MaxCategories == 2
MaxLegacyChecks == 3

-----------------------------------------------------------------------------
(* JavaScript values *)

null == -1
undefined == -2

\* Math.round(n / d) for n >= 0, d > 0: the nearest integer, halves upward.
MathRound(n, d) == (2 * n + d) \div (2 * d)

-----------------------------------------------------------------------------
(* Check records *)

\* "skipped" stands for any status string outside the six the code names.
Statuses == {"pass", "info", "warn", "fail", "error", "unavailable", "skipped"}

\* "none" stands for a missing or unrecognised severity.
Severities == {"critical", "high", "medium", "low", "none"}

Check(n, st, sev) == [name |-> n, status |-> st, severity |-> sev]

CheckRecords == {Check("check", st, sev) : st \in Statuses, sev \in Severities}


-----------------------------------------------------------------------------
(* Category Scorer: calculateCategoryScore, severity-weighted *)

\* A plausible slip: errored checks are kept in the average.
isScorable_all(check) == TRUE

\* checks.filter(check => check.status !== 'error' && check.status !== 'unavailable')
isScorable(check) == check.status # "error" /\ check.status # "unavailable"

\* A plausible slip: a missing severity counts as the lightest, 'low'.
severityWeight2_unknownLow(severity) ==
    CASE severity = "critical" -> 6
      [] severity = "high"     -> 4
      [] severity = "medium"   -> 2
      [] OTHER                 -> 1

\* A plausible slip: the half weight of 'low' is kept as an integer and lost.
severityWeight2_lowZero(severity) ==
    CASE severity = "critical" -> 6
      [] severity = "high"     -> 4
      [] severity = "medium"   -> 2
      [] severity = "low"      -> 0
      [] OTHER                 -> 2

\* { critical: 3, high: 2, medium: 1, low: 0.5 }[check.severity] || 1, doubled.
severityWeight2(severity) ==
    CASE severity = "critical" -> 6
      [] severity = "high"     -> 4
      [] severity = "medium"   -> 2
      [] severity = "low"      -> 1
      [] OTHER                 -> 2

\* A plausible slip: the older credit of 50 for a warning.
checkScore_warn50(status) ==
    IF status = "pass" THEN 100
    ELSE IF status = "warn" THEN 50
    ELSE IF status = "info" THEN 75
    ELSE 0

\* A plausible slip: a status that is not a failure earns partial credit.
checkScore_credit(status) ==
    IF status = "pass" THEN 100
    ELSE IF status = "warn" THEN 60
    ELSE IF status = "info" THEN 75
    ELSE IF status = "fail" THEN 0
    ELSE 50

\* let checkScore = 0; pass -> 100, warn -> 60, info -> 75; anything else stays 0.
checkScore(status) ==
    IF status = "pass" THEN 100
    ELSE IF status = "warn" THEN 60
    ELSE IF status = "info" THEN 75
    ELSE 0

\* scorableChecks.forEach: totalScore += checkScore * severityWeight;
\* totalWeight += severityWeight.  acc is [totalScore, totalWeight], doubled.
RECURSIVE ScoreLoop(_, _, _)
ScoreLoop(scorableChecks, i, acc) ==
    IF i > Len(scorableChecks) THEN acc
    ELSE ScoreLoop(scorableChecks, i + 1,
            [totalScore  |-> acc.totalScore
                             + checkScore(scorableChecks[i].status)
                               * severityWeight2(scorableChecks[i].severity),
             totalWeight |-> acc.totalWeight
                             + severityWeight2(scorableChecks[i].severity)])

\* A plausible slip: the weighted total is divided by the number of checks,
\* the denominator of the older module, instead of by the total weight.
calculateCategoryScore_perCheck(cs) ==
    IF Len(cs) = 0 THEN null
    ELSE LET scorableChecks == SelectSeq(cs, isScorable)
         IN  IF Len(scorableChecks) = 0 THEN null
             ELSE LET acc == ScoreLoop(scorableChecks, 1,
                                       [totalScore |-> 0, totalWeight |-> 0])
                  IN  MathRound(acc.totalScore, 2 * Len(scorableChecks))

\* A plausible slip: an unscorable category scores 0 instead of null.
calculateCategoryScore_zero(cs) ==
    LET scorableChecks == SelectSeq(cs, isScorable)
        acc == ScoreLoop(scorableChecks, 1, [totalScore |-> 0, totalWeight |-> 0])
    IN  IF acc.totalWeight = 0 THEN 0
        ELSE MathRound(acc.totalScore, acc.totalWeight)

calculateCategoryScore(cs) ==
    IF Len(cs) = 0 THEN null
    ELSE LET scorableChecks == SelectSeq(cs, isScorable)
         IN  IF Len(scorableChecks) = 0 THEN null
             ELSE LET acc == ScoreLoop(scorableChecks, 1,
                                       [totalScore |-> 0, totalWeight |-> 0])
                  IN  IF acc.totalWeight = 0 THEN null
                      ELSE MathRound(acc.totalScore, acc.totalWeight)

-----------------------------------------------------------------------------
(* The older Score Calculation Utilities module: unweighted mean *)

\* pass += 100, warn += 50, info += 75; 'fail' and 'error' contribute 0.
legacyCheckScore(status) ==
    IF status = "pass" THEN 100
    ELSE IF status = "warn" THEN 50
    ELSE IF status = "info" THEN 75
    ELSE 0

RECURSIVE LegacyScoreLoop(_, _, _)
LegacyScoreLoop(cs, i, sum) ==
    IF i > Len(cs) THEN sum
    ELSE LegacyScoreLoop(cs, i + 1, sum + legacyCheckScore(cs[i].status))

legacyCalculateCategoryScore(cs) ==
    IF Len(cs) = 0 THEN 0
    ELSE MathRound(LegacyScoreLoop(cs, 1, 0), Len(cs))

-----------------------------------------------------------------------------
(* A category checker: push checks, then score them *)

\* The aggregator and the route take no part.
ScorerInit ==
    /\ checks = << >>
    /\ score = undefined
    /\ spc = "collect"
    /\ categories = << >> /\ overall = [score |-> undefined] /\ apc = "off"
    /\ argument = [type |-> "undefined"]
    /\ scoreModule = "weighted"
    /\ promise = [c \in {"security", "dns", "performance", "seo", "accessibility", "safety"} |-> "none"]
    /\ settled = [c \in {"security", "dns", "performance", "seo", "accessibility", "safety"} |-> [jsType |-> "undefined"]]
    /\ response = [status |-> 0]
    /\ rpc = "off"
    /\ labelScore = [type |-> "undefined"] /\ label = ""
    /\ reqpc = << >> /\ site = << >> /\ cells = << >> /\ responses = << >>
    /\ legacyResults = << >> /\ runner = << >> /\ legacyPc = "off"

\* checks.push({ name, status, severity, ... })
PushCheck(c) ==
    /\ spc = "collect"
    /\ Len(checks) < MaxChecks
    /\ checks' = Append(checks, c)
    /\ UNCHANGED <<score, spc>>
    /\ UNCHANGED <<aggVars, routeVars, labelVars, concVars, legacyVars>>

\* const score = calculateCategoryScore(checks)
ScoreChecks ==
    /\ spc = "collect"
    /\ score' = calculateCategoryScore(checks)
    /\ spc' = "scored"
    /\ UNCHANGED checks
    /\ UNCHANGED <<aggVars, routeVars, labelVars, concVars, legacyVars>>

ScorerNext ==
    \/ \E c \in CheckRecords : PushCheck(c)
    \/ ScoreChecks

-----------------------------------------------------------------------------
(* Category results *)

\* An object literal returned by a checker.  status "absent" is a result object
\* without a status property; malwareDetected FALSE also stands for its absence
\* (the only test of it is `=== true`).
CategoryResult(name, sc, st, cs, malware) ==
    [jsType |-> "object", category |-> name, score |-> sc, status |-> st,
     checks |-> cs, malwareDetected |-> malware]

\* An entry that is not an object (null, a number, a string).
Malformed == [jsType |-> "null"]

\* !cat || typeof cat !== 'object'
isMalformed(cat) == cat.jsType # "object"

-----------------------------------------------------------------------------
(* Overall Aggregator: calculateOverallScore, importance-weighted *)

\* A plausible slip: the plain mean of the older module, every weight 1.
categoryWeight2_flat(categoryName) == 2

\* A plausible slip: a name outside the table gets the middle weight 1.5.
categoryWeight2_unlisted(categoryName) ==
    CASE categoryName \in {"Security & HTTPS", "Safety & Threats"} -> 6
      [] categoryName \in {"DNS & Domain", "Link Analysis"}        -> 4
      [] categoryName \in {"SEO & Metadata", "WHOIS & Domain Info"} -> 2
      [] OTHER                                                      -> 3

\* categoryWeights[categoryName] || 1, doubled.
categoryWeight2(categoryName) ==
    CASE categoryName = "Security & HTTPS"         -> 6
      [] categoryName = "Safety & Threats"         -> 6
      [] categoryName = "DNS & Domain"             -> 4
      [] categoryName = "Performance"              -> 3
      [] categoryName = "SEO & Metadata"           -> 2
      [] categoryName = "Accessibility (WCAG 2.1)" -> 3
      [] categoryName = "Link Analysis"            -> 4
      [] categoryName = "External Links"           -> 3
      [] categoryName = "WHOIS & Domain Info"      -> 2
      [] OTHER                                     -> 2

\* A plausible slip: only the status is looked at, so a null score goes on to
\* `typeof cat.score === 'number' ? cat.score : 0` and counts as zero.
isUnavailable_statusOnly(cat) == cat.status = "unavailable"

\* cat.status === 'unavailable' || cat.score === null || cat.score === undefined
isUnavailable(cat) ==
    cat.status = "unavailable" \/ cat.score = null \/ cat.score = undefined

\* A plausible slip: the defensive recheck of the checks is left out.
allChecksFailed_never(cat) == FALSE

\* validChecks = cat.checks.filter(c => c.status !== 'error' &&
\* c.status !== 'unavailable'); validChecks.length === 0
allChecksFailed(cat) ==
    Len(SelectSeq(cat.checks, isScorable)) = 0

\* cat.category || 'Unknown'
categoryNameOf(cat) == IF cat.category = "" THEN "Unknown" ELSE cat.category

\* typeof cat.score === 'number' ? cat.score : 0
numericScore(cat) == IF cat.score >= 0 THEN cat.score ELSE 0

\* A plausible slip: an entry that is no object is not skipped but counted
\* as a category 'Unknown' of score 0.
RECURSIVE AggregateLoop_zeroForMalformed(_, _, _)
AggregateLoop_zeroForMalformed(cats, i, acc) ==
    IF i > Len(cats) THEN acc
    ELSE LET cat == IF isMalformed(cats[i])
                    THEN CategoryResult("Unknown", 0, "absent",
                                        <<Check("check", "fail", "medium")>>, FALSE)
                    ELSE cats[i]
         IN
      IF isUnavailable(cat) THEN
        AggregateLoop_zeroForMalformed(cats, i + 1,
          [acc EXCEPT !.excludedCategories =
             Append(@, [name   |-> categoryNameOf(cat),
                        reason |-> IF cat.status = "unavailable"
                                   THEN "Analysis unavailable"
                                   ELSE "No valid checks executed"])])
      ELSE IF allChecksFailed(cat) THEN
        AggregateLoop_zeroForMalformed(cats, i + 1,
          [acc EXCEPT !.excludedCategories =
             Append(@, [name   |-> categoryNameOf(cat),
                        reason |-> "All checks failed or unavailable"])])
      ELSE
        LET weight2 == categoryWeight2(categoryNameOf(cat))
            sc      == numericScore(cat)
            tw2     == acc.totalWeight + weight2
        IN AggregateLoop_zeroForMalformed(cats, i + 1,
             [excludedCategories |-> acc.excludedCategories,
              categoryScores |->
                 Append(acc.categoryScores,
                        [name |-> categoryNameOf(cat), score |-> sc,
                         weight2 |-> weight2,
                         contribution |-> MathRound(sc * weight2, tw2)]),
              weightedSum |-> acc.weightedSum + sc * weight2,
              totalWeight |-> tw2])

\* A plausible slip: totalWeight = weight instead of totalWeight += weight,
\* so the divisor is the weight of the last included category.
RECURSIVE AggregateLoop_lastWeight(_, _, _)
AggregateLoop_lastWeight(cats, i, acc) ==
    IF i > Len(cats) THEN acc
    ELSE LET cat == cats[i] IN
      IF isMalformed(cat) THEN AggregateLoop_lastWeight(cats, i + 1, acc)
      ELSE IF isUnavailable(cat) THEN
        AggregateLoop_lastWeight(cats, i + 1,
          [acc EXCEPT !.excludedCategories =
             Append(@, [name   |-> categoryNameOf(cat),
                        reason |-> IF cat.status = "unavailable"
                                   THEN "Analysis unavailable"
                                   ELSE "No valid checks executed"])])
      ELSE IF allChecksFailed(cat) THEN
        AggregateLoop_lastWeight(cats, i + 1,
          [acc EXCEPT !.excludedCategories =
             Append(@, [name   |-> categoryNameOf(cat),
                        reason |-> "All checks failed or unavailable"])])
      ELSE
        LET weight2 == categoryWeight2(categoryNameOf(cat))
            sc      == numericScore(cat)
        IN AggregateLoop_lastWeight(cats, i + 1,
             [excludedCategories |-> acc.excludedCategories,
              categoryScores |->
                 Append(acc.categoryScores,
                        [name |-> categoryNameOf(cat), score |-> sc,
                         weight2 |-> weight2,
                         contribution |-> MathRound(sc * weight2, weight2)]),
              weightedSum |-> acc.weightedSum + sc * weight2,
              totalWeight |-> weight2])

\* categories.forEach(cat => { ... }) with its accumulators.
RECURSIVE AggregateLoop(_, _, _)
AggregateLoop(cats, i, acc) ==
    IF i > Len(cats) THEN acc
    ELSE LET cat == cats[i] IN
      IF isMalformed(cat) THEN AggregateLoop(cats, i + 1, acc)
      ELSE IF isUnavailable(cat) THEN
        AggregateLoop(cats, i + 1,
          [acc EXCEPT !.excludedCategories =
             Append(@, [name   |-> categoryNameOf(cat),
                        reason |-> IF cat.status = "unavailable"
                                   THEN "Analysis unavailable"
                                   ELSE "No valid checks executed"])])
      ELSE IF allChecksFailed(cat) THEN
        AggregateLoop(cats, i + 1,
          [acc EXCEPT !.excludedCategories =
             Append(@, [name   |-> categoryNameOf(cat),
                        reason |-> "All checks failed or unavailable"])])
      ELSE
        LET weight2 == categoryWeight2(categoryNameOf(cat))
            sc      == numericScore(cat)
            tw2     == acc.totalWeight + weight2
        IN AggregateLoop(cats, i + 1,
             [excludedCategories |-> acc.excludedCategories,
              categoryScores |->
                 Append(acc.categoryScores,
                        [name |-> categoryNameOf(cat), score |-> sc,
                         weight2 |-> weight2,
                         contribution |-> MathRound(sc * weight2, tw2)]),
              weightedSum |-> acc.weightedSum + sc * weight2,
              totalWeight |-> tw2])

\* A plausible slip: the weighted sum is not divided by the total weight.
finalScore_unnormalised(weightedSum, totalWeight) ==
    IF totalWeight > 0 THEN MathRound(weightedSum, 2) ELSE 0

\* A plausible slip: the quotient is truncated instead of rounded.
finalScore_floor(weightedSum, totalWeight) ==
    IF totalWeight > 0 THEN weightedSum \div totalWeight ELSE 0

\* totalWeight > 0 ? Math.round(weightedSum / totalWeight) : 0
finalScore(weightedSum, totalWeight) ==
    IF totalWeight > 0 THEN MathRound(weightedSum, totalWeight) ELSE 0

\* An array as a JavaScript value.
Arr(items) == [type |-> "array", value |-> items]

\* Array.isArray(categories)
isArray(v) == v.type = "array"

\* A plausible slip: no input is reported as not analysed rather than as 0.
emptyOverall_null ==
    [score |-> null,
     breakdown |-> [includedCategories |-> 0, totalCategories |-> 0,
                    excludedCategories |-> << >>, categoryScores |-> << >>]]

\* The object returned when the input is not a non-empty array.
emptyOverall ==
    [score |-> 0,
     breakdown |-> [includedCategories |-> 0, totalCategories |-> 0,
                    excludedCategories |-> << >>, categoryScores |-> << >>]]

\* A plausible slip: totalCategories counts the categories that were scored.
calculateOverallScore_totalIncluded(categoriesArg) ==
    IF ~isArray(categoriesArg) \/ Len(categoriesArg.value) = 0
    THEN emptyOverall
    ELSE LET cats == categoriesArg.value
             acc  == AggregateLoop(cats, 1,
                      [excludedCategories |-> << >>, categoryScores |-> << >>,
                       weightedSum |-> 0, totalWeight |-> 0])
         IN [score |-> finalScore(acc.weightedSum, acc.totalWeight),
             breakdown |-> [includedCategories |-> Len(acc.categoryScores),
                            totalCategories |-> Len(acc.categoryScores),
                            excludedCategories |-> acc.excludedCategories,
                            categoryScores |-> acc.categoryScores]]

\* The argument is a JavaScript value: Arr(list) or a value of another type.
\* The `formula` string of the breakdown is constant and left out.
calculateOverallScore(categoriesArg) ==
    IF ~isArray(categoriesArg) \/ Len(categoriesArg.value) = 0
    THEN emptyOverall
    ELSE LET cats == categoriesArg.value
             acc  == AggregateLoop(cats, 1,
                      [excludedCategories |-> << >>, categoryScores |-> << >>,
                       weightedSum |-> 0, totalWeight |-> 0])
         IN [score |-> finalScore(acc.weightedSum, acc.totalWeight),
             breakdown |-> [includedCategories |-> Len(acc.categoryScores),
                            totalCategories |-> Len(cats),
                            excludedCategories |-> acc.excludedCategories,
                            categoryScores |-> acc.categoryScores]]

-----------------------------------------------------------------------------
(* The Aggregator applied to a list of category results *)

ErrorOnly == <<Check("Error", "error", "critical")>>
ErrorThenPass == <<Check("Error", "error", "critical"), Check("check", "pass", "medium")>>

\* Names of weight 3, 1.5 and of no entry in the table.
InputNames == {"Security & HTTPS", "Performance", "SEO & Meta"}
InputScores == {null, undefined, 35, 100}
InputStatuses == {"available", "unavailable", "absent"}

CategoryInputs ==
    {CategoryResult(n, sc, st, cs, FALSE) :
        n \in InputNames, sc \in InputScores, st \in InputStatuses,
        cs \in {ErrorOnly, ErrorThenPass}}
    \cup {Malformed}

\* The category names the checkers return, the two names the route gives to
\* safeCheck that no checker returns, and a name nothing returns.
EmittedNames ==
    {"Security & HTTPS", "Safety & Threats", "DNS & Domain", "Performance",
     "SEO & Metadata", "Accessibility (WCAG 2.1)", "Link Analysis",
     "External Links", "WHOIS & Domain Info",
     "SEO & Meta", "Accessibility", "Unrecognized Category"}

\* Results that count: a numeric score, status 'available', a usable check.
NamedInputs ==
    {CategoryResult(n, sc, "available", ErrorThenPass, FALSE) :
        n \in EmittedNames, sc \in {35, 80, 100}}

\* The scorer and the route take no part.
AggInit ==
    /\ categories = << >>
    /\ overall = [score |-> undefined]
    /\ apc = "collect"
    /\ argument = [type |-> "undefined"]
    /\ checks = << >> /\ score = undefined /\ spc = "off"
    /\ scoreModule = "weighted"
    /\ promise = [c \in {"security", "dns", "performance", "seo", "accessibility", "safety"} |-> "none"]
    /\ settled = [c \in {"security", "dns", "performance", "seo", "accessibility", "safety"} |-> [jsType |-> "undefined"]]
    /\ response = [status |-> 0]
    /\ rpc = "off"
    /\ labelScore = [type |-> "undefined"] /\ label = ""
    /\ reqpc = << >> /\ site = << >> /\ cells = << >> /\ responses = << >>
    /\ legacyResults = << >> /\ runner = << >> /\ legacyPc = "off"

\* The caller puts one more entry in the list it will pass.
PushCategory(cat) ==
    /\ apc = "collect"
    /\ Len(categories) < MaxCategories
    /\ categories' = Append(categories, cat)
    /\ UNCHANGED <<overall, apc, argument>>
    /\ UNCHANGED <<scorerVars, routeVars, labelVars, concVars, legacyVars>>

\* calculateOverallScore(categories)
Aggregate ==
    /\ apc = "collect"
    /\ argument' = Arr(categories)
    /\ overall' = calculateOverallScore(argument')
    /\ apc' = "aggregated"
    /\ UNCHANGED categories
    /\ UNCHANGED <<scorerVars, routeVars, labelVars, concVars, legacyVars>>

\* calculateOverallScore(v) for a caller that holds no array: null,
\* undefined, a number, a string, an array-like object.
AggregateNonArray(v) ==
    /\ apc = "collect"
    /\ categories = << >>
    /\ argument' = v
    /\ overall' = calculateOverallScore(v)
    /\ apc' = "aggregated"
    /\ UNCHANGED categories
    /\ UNCHANGED <<scorerVars, routeVars, labelVars, concVars, legacyVars>>

\* Values of `categories` that are not arrays.
NonArrayArguments ==
    {[type |-> "null"], [type |-> "undefined"], [type |-> "number", value |-> 42],
     [type |-> "string", value |-> "categories"],
     [type |-> "object", value |-> [length |-> 2]]}

AggNext ==
    \/ \E cat \in CategoryInputs : PushCategory(cat)
    \/ Aggregate
    \/ \E v \in NonArrayArguments : AggregateNonArray(v)

\* The same call on lists of results that all count, under every name.
ImportanceNext ==
    \/ \E cat \in NamedInputs : PushCategory(cat)
    \/ Aggregate

-----------------------------------------------------------------------------
(* The older Score Calculation Utilities module: overall score and labels *)

\* A JavaScript value with its type: a number, the object { score, breakdown },
\* NaN, null or undefined.
Num(n) == [type |-> "number", value |-> n]
Obj(r) == [type |-> "object", value |-> r]
NaN == [type |-> "NaN"]
JsNull == [type |-> "null"]
JsUndefined == [type |-> "undefined"]

\* scores.reduce((a, b) => a + b, 0): null adds 0; undefined makes the sum NaN
\* (returned here as undefined).
RECURSIVE LegacySumScores(_, _, _)
LegacySumScores(cats, i, sum) ==
    IF i > Len(cats) THEN sum
    ELSE IF cats[i].score = undefined THEN undefined
    ELSE LegacySumScores(cats, i + 1,
                         sum + (IF cats[i].score = null THEN 0 ELSE cats[i].score))

\* Math.round(sum / scores.length)
legacyCalculateOverallScore(cats) ==
    LET sum == LegacySumScores(cats, 1, 0)
    IN  IF Len(cats) = 0 \/ sum = undefined THEN NaN
        ELSE Num(MathRound(sum, Len(cats)))

\* score >= n in JavaScript: null converts to 0; undefined, NaN and an object
\* convert to NaN, which compares false with every number.
jsAtLeast(v, n) ==
    \/ v.type = "number" /\ v.value >= n
    \/ v.type = "null" /\ 0 >= n

legacyGetScoreLabel(v) ==
    IF jsAtLeast(v, 90) THEN "Excellent"
    ELSE IF jsAtLeast(v, 75) THEN "Good"
    ELSE IF jsAtLeast(v, 60) THEN "Fair"
    ELSE IF jsAtLeast(v, 45) THEN "Poor"
    ELSE "Critical"

legacyGetScoreColor(v) ==
    IF jsAtLeast(v, 90) THEN "#10b981"
    ELSE IF jsAtLeast(v, 75) THEN "#3b82f6"
    ELSE IF jsAtLeast(v, 60) THEN "#f59e0b"
    ELSE IF jsAtLeast(v, 45) THEN "#ef4444"
    ELSE "#dc2626"

-----------------------------------------------------------------------------
(* Status/label mapping of the severity-weighted module *)

\* A plausible slip: the thresholds are exclusive, so 90 is only 'Good'.
getScoreLabel_exclusive(v) ==
    IF v.type = "null" \/ v.type = "undefined" THEN "Not Analyzed"
    ELSE IF v.type = "number" /\ v.value > 90 THEN "Excellent"
    ELSE IF v.type = "number" /\ v.value > 75 THEN "Good"
    ELSE IF v.type = "number" /\ v.value > 60 THEN "Fair"
    ELSE IF v.type = "number" /\ v.value > 45 THEN "Poor"
    ELSE "Critical"

getScoreLabel(v) ==
    IF v.type = "null" \/ v.type = "undefined" THEN "Not Analyzed"
    ELSE IF jsAtLeast(v, 90) THEN "Excellent"
    ELSE IF jsAtLeast(v, 75) THEN "Good"
    ELSE IF jsAtLeast(v, 60) THEN "Fair"
    ELSE IF jsAtLeast(v, 45) THEN "Poor"
    ELSE "Critical"

getScoreColor(v) ==
    IF v.type = "null" \/ v.type = "undefined" THEN "#6b7280"
    ELSE IF jsAtLeast(v, 90) THEN "#10b981"
    ELSE IF jsAtLeast(v, 75) THEN "#3b82f6"
    ELSE IF jsAtLeast(v, 60) THEN "#f59e0b"
    ELSE IF jsAtLeast(v, 45) THEN "#ef4444"
    ELSE "#dc2626"

\* The scores a caller may hand over: every integer score and a little
\* beyond, NaN, null and undefined.
LabelInputs ==
    {Num(n) : n \in -3..103} \cup {NaN, JsNull, JsUndefined}

\* A caller about to label a score.  The scorer, the aggregator and the route
\* take no part.
LabelInit ==
    /\ labelScore \in LabelInputs
    /\ label = ""
    /\ checks = << >> /\ score = undefined /\ spc = "off"
    /\ categories = << >> /\ overall = [score |-> undefined] /\ apc = "off"
    /\ argument = [type |-> "undefined"]
    /\ scoreModule = "weighted"
    /\ promise = [c \in {"security", "dns", "performance", "seo", "accessibility", "safety"} |-> "none"]
    /\ settled = [c \in {"security", "dns", "performance", "seo", "accessibility", "safety"} |-> [jsType |-> "undefined"]]
    /\ response = [status |-> 0]
    /\ rpc = "off"
    /\ reqpc = << >> /\ site = << >> /\ cells = << >> /\ responses = << >>
    /\ legacyResults = << >> /\ runner = << >> /\ legacyPc = "off"

\* getScoreLabel(score)
ApplyLabel ==
    /\ label = ""
    /\ label' = getScoreLabel(labelScore)
    /\ UNCHANGED labelScore
    /\ UNCHANGED <<scorerVars, aggVars, routeVars, concVars, legacyVars>>

LabelNext == ApplyLabel

-----------------------------------------------------------------------------
(* Score Calculation Utilities as the checkers and the route import it.     *)
(* Two modules of the repository carry that name and export the same four   *)
(* functions; scoreModule says which one require() resolved to.             *)

ScoreModules == {"weighted", "legacy"}

importedCategoryScore(module, cs) ==
    IF module = "weighted" THEN calculateCategoryScore(cs)
    ELSE legacyCalculateCategoryScore(cs)

importedOverallScore(module, cats) ==
    IF module = "weighted" THEN Obj(calculateOverallScore(Arr(cats)))
    ELSE legacyCalculateOverallScore(cats)

importedScoreLabel(module, v) ==
    IF module = "weighted" THEN getScoreLabel(v) ELSE legacyGetScoreLabel(v)

importedScoreColor(module, v) ==
    IF module = "weighted" THEN getScoreColor(v) ELSE legacyGetScoreColor(v)

-----------------------------------------------------------------------------
(* The category checkers the route runs.  What a checker sees of the target *)
(* is its `outcome`; its checks are the first two it pushes.                *)

\* status: score === null ? 'unavailable' : 'available'
statusOf(sc) == IF sc = null THEN "unavailable" ELSE "available"

\* SecurityCheck.analyze
SecurityOutcomes == {"good", "poor", "down"}
SecurityCheck_analyze(module, outcome) ==
    LET cs == CASE outcome = "good" ->
                     <<Check("HTTPS Encryption", "pass", "critical"),
                       Check("HSTS Header", "pass", "medium")>>
                [] outcome = "poor" ->
                     <<Check("HTTPS Encryption", "fail", "critical"),
                       Check("HSTS Header", "warn", "medium")>>
                [] OTHER ->
                     <<Check("Connection Error", "error", "critical")>>
        sc == importedCategoryScore(module, cs)
    IN  CategoryResult("Security & HTTPS", sc, statusOf(sc), cs, FALSE)

\* A plausible slip: a lookup that threw is recorded as an 'error' check.
DnsCheck_analyze_lookupError(module, outcome) ==
    LET cs == IF outcome = "good"
              THEN <<Check("DNS Resolution", "pass", "critical"),
                     Check("IPv6 Support", "pass", "low")>>
              ELSE <<Check("DNS Resolution", "error", "critical"),
                     Check("IPv6 Support", "error", "low")>>
    IN  CategoryResult("DNS & Domain", importedCategoryScore(module, cs),
                       "absent", cs, FALSE)

\* DnsCheck.analyze: each lookup has its own catch, so a failed lookup is a
\* 'fail' or 'info' check; the result object has no status property.
DnsOutcomes == {"good", "poor"}
DnsCheck_analyze(module, outcome) ==
    LET cs == IF outcome = "good"
              THEN <<Check("DNS Resolution", "pass", "critical"),
                     Check("IPv6 Support", "pass", "low")>>
              ELSE <<Check("DNS Resolution", "fail", "critical"),
                     Check("IPv6 Support", "info", "low")>>
    IN  CategoryResult("DNS & Domain", importedCategoryScore(module, cs),
                       "absent", cs, FALSE)

\* PerformanceCheck.analyze: the result object has no status property.
PerformanceOutcomes == {"good", "poor", "down"}
PerformanceCheck_analyze(module, outcome) ==
    LET cs == CASE outcome = "good" ->
                     <<Check("Page Load Time", "pass", "medium"),
                       Check("HTTP Version", "pass", "medium")>>
                [] outcome = "poor" ->
                     <<Check("Page Load Time", "fail", "medium"),
                       Check("HTTP Version", "warn", "medium")>>
                [] OTHER ->
                     <<Check("Performance Check Error", "error", "critical")>>
    IN  CategoryResult("Performance", importedCategoryScore(module, cs),
                       "absent", cs, FALSE)

\* AccessibilityCheck.analyze
AccessibilityOutcomes == {"good", "poor", "down"}
AccessibilityCheck_analyze(module, outcome) ==
    LET cs == CASE outcome = "good" ->
                     <<Check("Page Language Declaration", "pass", "medium"),
                       Check("Image Alt Text", "pass", "medium")>>
                [] outcome = "poor" ->
                     <<Check("Page Language Declaration", "warn", "medium"),
                       Check("Image Alt Text", "warn", "medium")>>
                [] OTHER ->
                     <<Check("Accessibility Analysis Error", "error", "critical")>>
        sc == importedCategoryScore(module, cs)
    IN  CategoryResult("Accessibility (WCAG 2.1)", sc, statusOf(sc), cs, FALSE)

\* checks.some(c => c.name === 'Malware/Phishing Indicators' && c.status === 'fail')
hasMalwareCheck(cs, st) ==
    \E i \in 1..Len(cs) :
        cs[i].name = "Malware/Phishing Indicators" /\ cs[i].status = st

\* A plausible slip: a safety analysis that errored is reported as a
\* detection, to be on the safe side.
SafetyCheck_analyze_errorIsMalware(module, outcome) ==
    LET analysisError == outcome = "down"
        cs == CASE outcome = "clean" ->
                     <<Check("Malware/Phishing Indicators", "pass", "critical"),
                       Check("Credential Harvesting", "pass", "critical")>>
                [] outcome = "malware" ->
                     <<Check("Malware/Phishing Indicators", "fail", "critical"),
                       Check("Credential Harvesting", "pass", "critical")>>
                [] OTHER ->
                     <<Check("Safety Analysis Error", "error", "critical")>>
        sc == IF analysisError THEN null
              ELSE IF hasMalwareCheck(cs, "fail") THEN 0
              ELSE importedCategoryScore(module, cs)
    IN  CategoryResult("Safety & Threats", sc,
                       IF analysisError THEN "unavailable" ELSE "available",
                       cs, analysisError \/ hasMalwareCheck(cs, "fail"))

\* A plausible slip: the score of a result with a detection is left as the
\* category scorer computed it.
SafetyCheck_analyze_scoreKept(module, outcome) ==
    LET analysisError == outcome = "down"
        cs == CASE outcome = "clean" ->
                     <<Check("Malware/Phishing Indicators", "pass", "critical"),
                       Check("Credential Harvesting", "pass", "critical")>>
                [] outcome = "malware" ->
                     <<Check("Malware/Phishing Indicators", "fail", "critical"),
                       Check("Credential Harvesting", "pass", "critical")>>
                [] OTHER ->
                     <<Check("Safety Analysis Error", "error", "critical")>>
        sc == IF analysisError THEN null
              ELSE importedCategoryScore(module, cs)
    IN  CategoryResult("Safety & Threats", sc,
                       IF analysisError THEN "unavailable" ELSE "available",
                       cs, hasMalwareCheck(cs, "fail"))

\* SafetyCheck.analyze: on analysisError the score is null and the category
\* unavailable; otherwise the score is forced to 0 when the malware check
\* failed or errored.
SafetyOutcomes == {"clean", "malware", "down"}
SafetyCheck_analyze(module, outcome) ==
    LET analysisError == outcome = "down"
        cs == CASE outcome = "clean" ->
                     <<Check("Malware/Phishing Indicators", "pass", "critical"),
                       Check("Credential Harvesting", "pass", "critical")>>
                [] outcome = "malware" ->
                     <<Check("Malware/Phishing Indicators", "fail", "critical"),
                       Check("Credential Harvesting", "pass", "critical")>>
                [] OTHER ->
                     <<Check("Safety Analysis Error", "error", "critical")>>
        malwareFlag == hasMalwareCheck(cs, "fail") \/ hasMalwareCheck(cs, "error")
        sc == IF analysisError THEN null
              ELSE IF malwareFlag THEN 0
              ELSE importedCategoryScore(module, cs)
    IN  CategoryResult("Safety & Threats", sc,
                       IF analysisError THEN "unavailable" ELSE "available",
                       cs, hasMalwareCheck(cs, "fail"))

\* SeoCheck.analyze: a checker as the specification describes one.  "throws"
\* is a rejected promise and "invalid" a fulfilment with no score property.
SeoOutcomes == {"good", "down", "throws", "invalid"}
SeoCheck_analyze(module, outcome) ==
    LET cs == IF outcome = "good"
              THEN <<Check("Title Tag", "pass", "medium")>>
              ELSE <<Check("SEO Analysis Error", "error", "critical")>>
        sc == importedCategoryScore(module, cs)
    IN  CategoryResult("SEO & Metadata", sc, statusOf(sc), cs, FALSE)

Checkers == {"security", "dns", "performance", "seo", "accessibility", "safety"}

\* The order of the Promise.all array and of `categories`.
CheckerOrder == <<"security", "dns", "performance", "seo", "accessibility", "safety">>

Outcomes(c) ==
    CASE c = "security"      -> SecurityOutcomes
      [] c = "dns"           -> DnsOutcomes
      [] c = "performance"   -> PerformanceOutcomes
      [] c = "seo"           -> SeoOutcomes
      [] c = "accessibility" -> AccessibilityOutcomes
      [] c = "safety"        -> SafetyOutcomes

analyze(c, module, outcome) ==
    CASE c = "security"      -> SecurityCheck_analyze(module, outcome)
      [] c = "dns"           -> DnsCheck_analyze(module, outcome)
      [] c = "performance"   -> PerformanceCheck_analyze(module, outcome)
      [] c = "seo"           -> SeoCheck_analyze(module, outcome)
      [] c = "accessibility" -> AccessibilityCheck_analyze(module, outcome)
      [] c = "safety"        -> SafetyCheck_analyze(module, outcome)

\* The checkName the route passes to safeCheck for each checker.
checkNameOf(c) ==
    CASE c = "security"      -> "Security & HTTPS"
      [] c = "dns"           -> "DNS & Domain"
      [] c = "performance"   -> "Performance"
      [] c = "seo"           -> "SEO & Meta"
      [] c = "accessibility" -> "Accessibility"
      [] c = "safety"        -> "Safety & Threats"

-----------------------------------------------------------------------------
(* POST /api/analyze *)

\* validateUrl: parsed.href for an http: or https: URL that parses, else null
\* (the empty string here; the route only tests `!validatedUrl`).
validateUrl(url) ==
    IF url.parses /\ url.protocol \in {"http:", "https:"} THEN url.href ELSE ""

\* req.body.url: absent, or a string that may parse as a URL.
RequestUrls ==
    {[given |-> FALSE, parses |-> FALSE, protocol |-> "", href |-> ""],
     [given |-> TRUE, parses |-> FALSE, protocol |-> "", href |-> ""],
     [given |-> TRUE, parses |-> TRUE, protocol |-> "ftp:", href |-> "ftp://example.com/"],
     [given |-> TRUE, parses |-> TRUE, protocol |-> "http:", href |-> "http://example.com/"],
     [given |-> TRUE, parses |-> TRUE, protocol |-> "https:", href |-> "https://example.com/"]}

NoResult == [jsType |-> "undefined"]
NoResponse == [status |-> 0]

\* safeCheck's answer to a fulfilment that is no object with a score.
safeCheckInvalid(checkName) ==
    CategoryResult(checkName, 0, "absent",
                   <<Check("Invalid Response", "error", "critical")>>, FALSE)

\* safeCheck's answer to a rejection.
safeCheckError(checkName) ==
    CategoryResult(checkName, 0, "absent",
                   <<Check("Error", "error", "critical")>>, FALSE)

\* safeCheck(new XCheck().analyze(validatedUrl), checkName, fallbackIcon)
safeCheck(c, module, outcome) ==
    IF outcome = "throws" THEN safeCheckError(checkNameOf(c))
    ELSE IF outcome = "invalid" THEN safeCheckInvalid(checkNameOf(c))
    ELSE analyze(c, module, outcome)

\* categories.filter(cat => cat && typeof cat === 'object' && 'score' in cat)
RECURSIVE validCategoriesOf(_, _)
validCategoriesOf(results, i) ==
    IF i > Len(CheckerOrder) THEN << >>
    ELSE LET cat == results[CheckerOrder[i]]
         IN  (IF cat.jsType = "object" THEN <<cat>> ELSE << >>)
             \o validCategoriesOf(results, i + 1)

\* validCategories.some(cat => cat && cat.malwareDetected === true)
anyMalware(cats) == \E i \in 1..Len(cats) : cats[i].malwareDetected = TRUE

\* A plausible slip: the weighted score is sent as computed.
malwareOverride_none(overallScore, cats) == overallScore

\* if (malwareDetected) { overallScore = 0; }
malwareOverride(overallScore, cats) ==
    IF anyMalware(cats) THEN Num(0) ELSE overallScore

Init ==
    /\ scoreModule \in ScoreModules
    /\ promise = [c \in Checkers |-> "none"]
    /\ settled = [c \in Checkers |-> NoResult]
    /\ response = NoResponse
    /\ rpc = "idle"
    /\ labelScore = [type |-> "undefined"] /\ label = ""
    /\ checks = << >> /\ score = undefined /\ spc = "idle"
    /\ categories = << >> /\ overall = [score |-> undefined] /\ apc = "idle"
    /\ argument = [type |-> "undefined"]
    /\ reqpc = << >> /\ site = << >> /\ cells = << >> /\ responses = << >>
    /\ legacyResults = << >> /\ runner = << >> /\ legacyPc = "off"

\* !url || typeof url !== 'string', or validateUrl(url) is null: 400.
RejectRequest(url) ==
    /\ rpc = "idle"
    /\ ~url.given \/ validateUrl(url) = ""
    /\ response' = [status |-> 400, success |-> FALSE]
    /\ rpc' = "done"
    /\ UNCHANGED <<scoreModule, promise, settled>>
    /\ UNCHANGED <<scorerVars, aggVars, labelVars, concVars, legacyVars>>

\* The six analyze() calls are made and their promises handed to safeCheck.
StartChecks(url) ==
    /\ rpc = "idle"
    /\ url.given /\ validateUrl(url) # ""
    /\ promise' = [c \in Checkers |-> "pending"]
    /\ rpc' = "checking"
    /\ UNCHANGED <<scoreModule, settled, response>>
    /\ UNCHANGED <<scorerVars, aggVars, labelVars, concVars, legacyVars>>

\* One checker's promise settles and its safeCheck returns.
Settle(c, outcome) ==
    /\ rpc = "checking"
    /\ promise[c] = "pending"
    /\ promise' = [promise EXCEPT ![c] =
                     IF outcome = "throws" THEN "rejected" ELSE "fulfilled"]
    /\ settled' = [settled EXCEPT ![c] = safeCheck(c, scoreModule, outcome)]
    /\ UNCHANGED <<scoreModule, response, rpc>>
    /\ UNCHANGED <<scorerVars, aggVars, labelVars, concVars, legacyVars>>

\* A plausible slip: the label and colour are taken before the malware
\* override is applied to the score.
respondWith_labelBeforeOverride(module, safeResults) ==
    LET validCategories == validCategoriesOf(safeResults, 1)
    IN  IF Len(validCategories) = 0
        THEN [status |-> 500, success |-> FALSE]
        ELSE LET computed == importedOverallScore(module, validCategories)
                 overallScore == malwareOverride(computed, validCategories)
             IN [status |-> 200, success |-> TRUE,
                 overall |-> [score |-> overallScore,
                              label |-> importedScoreLabel(module, computed),
                              color |-> importedScoreColor(module, computed)],
                 categories |-> validCategories]

\* Lines 70-119 of the handler on the six values of the Promise.all array:
\* filter, 500 if nothing is left, aggregate, override, label, build the body.
respondWith(module, safeResults) ==
    LET validCategories == validCategoriesOf(safeResults, 1)
    IN  IF Len(validCategories) = 0
        THEN [status |-> 500, success |-> FALSE]
        ELSE LET overallScore ==
                   malwareOverride(
                     importedOverallScore(module, validCategories),
                     validCategories)
             IN [status |-> 200, success |-> TRUE,
                 overall |-> [score |-> overallScore,
                              label |-> importedScoreLabel(module, overallScore),
                              color |-> importedScoreColor(module, overallScore)],
                 categories |-> validCategories]

\* A plausible slip: the results are compiled without awaiting Promise.all, so
\* the checkers still pending are missing from the list that is aggregated.
Respond_early ==
    /\ rpc = "checking"
    /\ response' = respondWith(scoreModule, settled)
    /\ rpc' = "done"
    /\ UNCHANGED <<scoreModule, promise, settled>>
    /\ UNCHANGED <<scorerVars, aggVars, labelVars, concVars, legacyVars>>

\* Promise.all resolved: filter, aggregate, override, label, respond.
Respond ==
    /\ rpc = "checking"
    /\ \A c \in Checkers : promise[c] # "pending"
    /\ response' = respondWith(scoreModule, settled)
    /\ rpc' = "done"
    /\ UNCHANGED <<scoreModule, promise, settled>>
    /\ UNCHANGED <<scorerVars, aggVars, labelVars, concVars, legacyVars>>

-----------------------------------------------------------------------------
(* Two POST /api/analyze requests in flight together *)

Requests == {1, 2}

\* What a site does to the six checkers: a healthy site, a site carrying
\* malware, a site that fails every checker it can.
SiteProfiles ==
    {[security |-> "good", dns |-> "good", performance |-> "good",
      seo |-> "good", accessibility |-> "good", safety |-> "clean"],
     [security |-> "good", dns |-> "good", performance |-> "poor",
      seo |-> "invalid", accessibility |-> "good", safety |-> "malware"],
     [security |-> "down", dns |-> "poor", performance |-> "down",
      seo |-> "throws", accessibility |-> "down", safety |-> "down"]}

\* A plausible slip: the results are kept in one module-level place that
\* every invocation of the handler uses.
cellOf_shared(r) == 1

\* Where an invocation keeps its promises and results: in consts of the
\* handler's own scope, a fresh set for each request.
cellOf(r) == r

EmptyCell ==
    [promise |-> [c \in Checkers |-> "none"], settled |-> [c \in Checkers |-> NoResult]]

ConcurrentInit ==
    /\ scoreModule \in ScoreModules
    /\ reqpc = [r \in Requests |-> "idle"]
    /\ site \in [Requests -> SiteProfiles]
    /\ cells = [k \in Requests |-> EmptyCell]
    /\ responses = [r \in Requests |-> NoResponse]
    /\ promise = [c \in {"security", "dns", "performance", "seo", "accessibility", "safety"} |-> "none"]
    /\ settled = [c \in {"security", "dns", "performance", "seo", "accessibility", "safety"} |-> [jsType |-> "undefined"]]
    /\ response = [status |-> 0]
    /\ rpc = "off"
    /\ labelScore = [type |-> "undefined"] /\ label = ""
    /\ checks = << >> /\ score = undefined /\ spc = "off"
    /\ categories = << >> /\ overall = [score |-> undefined] /\ apc = "off"
    /\ argument = [type |-> "undefined"]
    /\ legacyResults = << >> /\ runner = << >> /\ legacyPc = "off"

\* Request r passed validation: six new checker objects, six analyze calls.
StartRequest(r) ==
    /\ reqpc[r] = "idle"
    /\ cells' = [cells EXCEPT ![cellOf(r)] =
                    [promise |-> [c \in Checkers |-> "pending"],
                     settled |-> [c \in Checkers |-> NoResult]]]
    /\ reqpc' = [reqpc EXCEPT ![r] = "checking"]
    /\ UNCHANGED <<site, responses>>
    /\ UNCHANGED <<scorerVars, aggVars, routeVars, labelVars, legacyVars>>

\* One checker of request r settles and its safeCheck returns.
SettleRequest(r, c) ==
    /\ reqpc[r] = "checking"
    /\ cells[cellOf(r)].promise[c] = "pending"
    /\ cells' = [cells EXCEPT ![cellOf(r)] =
                    [promise |-> [@.promise EXCEPT ![c] =
                                     IF site[r][c] = "throws" THEN "rejected"
                                     ELSE "fulfilled"],
                     settled |-> [@.settled EXCEPT ![c] =
                                     safeCheck(c, scoreModule, site[r][c])]]]
    /\ UNCHANGED <<reqpc, site, responses>>
    /\ UNCHANGED <<scorerVars, aggVars, routeVars, labelVars, legacyVars>>

\* The Promise.all of request r resolved: compile and respond.
RespondRequest(r) ==
    /\ reqpc[r] = "checking"
    /\ \A c \in Checkers : cells[cellOf(r)].promise[c] # "pending"
    /\ responses' = [responses EXCEPT ![r] =
                        respondWith(scoreModule, cells[cellOf(r)].settled)]
    /\ reqpc' = [reqpc EXCEPT ![r] = "done"]
    /\ UNCHANGED <<site, cells>>
    /\ UNCHANGED <<scorerVars, aggVars, routeVars, labelVars, legacyVars>>

ConcurrentNext ==
    \/ \E r \in Requests : StartRequest(r)
    \/ \E r \in Requests : \E c \in Checkers : SettleRequest(r, c)
    \/ \E r \in Requests : RespondRequest(r)

-----------------------------------------------------------------------------
(* The legacy URLAnalyzer: six runners recording checks into this.results *)

\* The six run*Checks methods and the category each records under.
LegacyRunners ==
    {"runSecurityChecks", "runDomainDnsChecks", "runPerformanceChecks",
     "runSeoChecks", "runAccessibilityPrivacyChecks", "runSafetyChecks"}

LegacyCategory(m) ==
    CASE m = "runSecurityChecks"             -> "Security & HTTPS"
      [] m = "runDomainDnsChecks"            -> "Domain & DNS"
      [] m = "runPerformanceChecks"          -> "Web Performance"
      [] m = "runSeoChecks"                  -> "SEO & Analytics"
      [] m = "runAccessibilityPrivacyChecks" -> "Accessibility & Privacy"
      [] m = "runSafetyChecks"               -> "Safety & Verification"

\* The statuses the analyzer passes to addCheck.
LegacyStatuses == {"pass", "warning", "fail"}

\* Index of the category of that name in the list, 0 if there is none.
legacyFind(cats, name) ==
    IF \E i \in 1..Len(cats) : cats[i].name = name
    THEN CHOOSE i \in 1..Len(cats) : cats[i].name = name
    ELSE 0

\* addCheck(category, checkName, status, details): find or create the
\* category, push the check, count it.
addCheck(res, category, status) ==
    LET found == legacyFind(res.categories, category)
        cats  == IF found = 0
                 THEN Append(res.categories, [name |-> category, checks |-> << >>])
                 ELSE res.categories
        k     == IF found = 0 THEN Len(cats) ELSE found
    IN  [summary |->
            [total_checks |-> res.summary.total_checks + 1,
             passed   |-> res.summary.passed + (IF status = "pass" THEN 1 ELSE 0),
             warnings |-> res.summary.warnings + (IF status = "warning" THEN 1 ELSE 0),
             failed   |-> res.summary.failed + (IF status = "fail" THEN 1 ELSE 0),
             score    |-> res.summary.score],
         categories |->
            [cats EXCEPT ![k] = [@ EXCEPT !.checks = Append(@, [status |-> status])]]]

\* Math.max(0, Math.min(100, score))
legacyClamp(n) == IF n < 0 THEN 0 ELSE IF n > 100 THEN 100 ELSE n

\* calculateSummary: Math.round(((passed / total) * 100 + (warnings / total)
\* * 50) / 100), clamped; the score is left alone when nothing was recorded.
calculateSummary(res) ==
    LET total == res.summary.total_checks
    IN  IF total > 0
        THEN [res EXCEPT !.summary.score =
                 legacyClamp(MathRound(res.summary.passed * 100
                                       + res.summary.warnings * 50,
                                       total * 100))]
        ELSE res

\* new URLAnalyzer(): the constructor's this.results.
LegacyInit ==
    /\ legacyResults = [summary |-> [total_checks |-> 0, passed |-> 0, warnings |-> 0,
                                     failed |-> 0, score |-> 0],
                        categories |-> << >>]
    /\ runner = [m \in {"runSecurityChecks", "runDomainDnsChecks", "runPerformanceChecks",
                        "runSeoChecks", "runAccessibilityPrivacyChecks", "runSafetyChecks"}
                     |-> "idle"]
    /\ legacyPc = "idle"
    /\ reqpc = << >> /\ site = << >> /\ cells = << >> /\ responses = << >>
    /\ scoreModule = "legacy"
    /\ promise = [c \in {"security", "dns", "performance", "seo", "accessibility", "safety"} |-> "none"]
    /\ settled = [c \in {"security", "dns", "performance", "seo", "accessibility", "safety"} |-> [jsType |-> "undefined"]]
    /\ response = [status |-> 0]
    /\ rpc = "off"
    /\ labelScore = [type |-> "undefined"] /\ label = ""
    /\ checks = << >> /\ score = undefined /\ spc = "off"
    /\ categories = << >> /\ overall = [score |-> undefined] /\ apc = "off"
    /\ argument = [type |-> "undefined"]

\* analyze(targetUrl): normalizeUrl succeeded and the six runners are called
\* inside Promise.all.
LegacyStart ==
    /\ legacyPc = "idle"
    /\ runner' = [m \in LegacyRunners |-> "running"]
    /\ legacyPc' = "running"
    /\ UNCHANGED legacyResults
    /\ UNCHANGED <<scorerVars, aggVars, routeVars, labelVars, concVars>>

\* analyze(targetUrl): normalizeUrl threw; the catch records the failure and
\* the results are returned without a summary score.
LegacyInvalidUrl ==
    /\ legacyPc = "idle"
    /\ legacyResults' = addCheck(legacyResults, "General", "fail")
    /\ legacyPc' = "returned"
    /\ UNCHANGED runner
    /\ UNCHANGED <<scorerVars, aggVars, routeVars, labelVars, concVars>>

\* A check method of runner m, resumed after its await, calls this.addCheck.
RunnerAddCheck(m, status) ==
    /\ legacyPc = "running"
    /\ runner[m] = "running"
    /\ legacyResults.summary.total_checks < MaxLegacyChecks
    /\ legacyResults' = addCheck(legacyResults, LegacyCategory(m), status)
    /\ UNCHANGED <<runner, legacyPc>>
    /\ UNCHANGED <<scorerVars, aggVars, routeVars, labelVars, concVars>>

\* Runner m's promise fulfils.
RunnerFinish(m) ==
    /\ legacyPc = "running"
    /\ runner[m] = "running"
    /\ runner' = [runner EXCEPT ![m] = "done"]
    /\ UNCHANGED <<legacyResults, legacyPc>>
    /\ UNCHANGED <<scorerVars, aggVars, routeVars, labelVars, concVars>>

\* Promise.all resolved: this.calculateSummary(); return this.results.
LegacyFinish ==
    /\ legacyPc = "running"
    /\ \A m \in LegacyRunners : runner[m] = "done"
    /\ legacyResults' = calculateSummary(legacyResults)
    /\ legacyPc' = "returned"
    /\ UNCHANGED runner
    /\ UNCHANGED <<scorerVars, aggVars, routeVars, labelVars, concVars>>

LegacyNext ==
    \/ LegacyStart
    \/ LegacyInvalidUrl
    \/ \E m \in LegacyRunners : \E status \in LegacyStatuses : RunnerAddCheck(m, status)
    \/ \E m \in LegacyRunners : RunnerFinish(m)
    \/ LegacyFinish

Next ==
    \/ \E url \in RequestUrls : RejectRequest(url)
    \/ \E url \in RequestUrls : StartChecks(url)
    \/ \E c \in Checkers : \E outcome \in Outcomes(c) : Settle(c, outcome)
    \/ Respond

Spec == Init /\ [][Next]_vars

-----------------------------------------------------------------------------
(* The scorer and the aggregator on their own *)

ScorerSpec == ScorerInit /\ [][ScorerNext]_vars

AggSpec == AggInit /\ [][AggNext]_vars

ImportanceSpec == AggInit /\ [][ImportanceNext]_vars

LabelSpec == LabelInit /\ [][LabelNext]_vars

ConcurrentSpec == ConcurrentInit /\ [][ConcurrentNext]_vars

LegacySpec == LegacyInit /\ [][LegacyNext]_vars

-----------------------------------------------------------------------------
(* What the specification says of the Category Scorer, stated on its own    *)
(* terms: the value and weight tables of section 4.1 (weights doubled) and  *)
(* sums over the scorable indices.                                          *)

ClaimValue(status) ==
    CASE status = "pass" -> 100
      [] status = "info" -> 75
      [] status = "warn" -> 60
      [] OTHER           -> 0

ClaimWeight2(severity) ==
    CASE severity = "critical" -> 6
      [] severity = "high"     -> 4
      [] severity = "low"      -> 1
      [] OTHER                 -> 2

ScorableIdx(cs) ==
    {i \in 1..Len(cs) : cs[i].status \notin {"error", "unavailable"}}

RECURSIVE ClaimWeightedValues(_, _)
ClaimWeightedValues(cs, S) ==
    IF S = {} THEN 0
    ELSE LET i == CHOOSE j \in S : TRUE
         IN  ClaimValue(cs[i].status) * ClaimWeight2(cs[i].severity)
             + ClaimWeightedValues(cs, S \ {i})

RECURSIVE ClaimWeights(_, _)
ClaimWeights(cs, S) ==
    IF S = {} THEN 0
    ELSE LET i == CHOOSE j \in S : TRUE
         IN  ClaimWeight2(cs[i].severity) + ClaimWeights(cs, S \ {i})

\* r is n/d rounded to the nearest integer: r - 1/2 <= n/d < r + 1/2.
IsRounded(r, n, d) == (2 * r - 1) * d <= 2 * n /\ 2 * n < (2 * r + 1) * d

\* C1: when the scorable subset (status neither 'error' nor 'unavailable') is
\* not empty, the score is the rounded severity-weighted mean of the values of
\* the scorable checks alone; errored and unavailable checks are in neither
\* sum.  One critical fail plus one low pass scores 14.
C1_WeightedMeanOfScorable ==
    spc = "scored" =>
        /\ ScorableIdx(checks) # {} =>
              /\ score # null
              /\ IsRounded(score, ClaimWeightedValues(checks, ScorableIdx(checks)),
                           ClaimWeights(checks, ScorableIdx(checks)))
        /\ checks = <<Check("check", "fail", "critical"), Check("check", "pass", "low")>>
              => score = 14

C1_Witness ==
    /\ spc = "scored"
    /\ checks = <<Check("check", "fail", "critical"), Check("check", "error", "high"),
                  Check("check", "pass", "low")>>
    /\ score = 14

\* C2: the score is null, neither 0 nor 100, when the list is empty or every
\* check in it is errored or unavailable.
C2_NullWhenNothingScorable ==
    spc = "scored" /\ ScorableIdx(checks) = {} =>
        score = null /\ score # 0 /\ score # 100

C2_Witness ==
    /\ spc = "scored"
    /\ checks = <<Check("check", "error", "critical"), Check("check", "unavailable", "low")>>
    /\ score = null

\* C9: a scorable check is valued pass 100, info 75, warn 60, fail 0, which a
\* list of one such check shows as its score; [critical pass, medium warn]
\* scores 90.
C9_StatusValues ==
    spc = "scored" =>
        /\ Len(checks) = 1 /\ checks[1].status \in {"pass", "info", "warn", "fail"}
              => score = (CASE checks[1].status = "pass" -> 100
                            [] checks[1].status = "info" -> 75
                            [] checks[1].status = "warn" -> 60
                            [] checks[1].status = "fail" -> 0)
        /\ checks = <<Check("check", "pass", "critical"), Check("check", "warn", "medium")>>
              => score = 90

C9_Witness ==
    /\ spc = "scored"
    /\ checks = <<Check("check", "pass", "critical"), Check("check", "warn", "medium")>>
    /\ score = 90

KnownStatuses == {"pass", "info", "warn", "fail", "error", "unavailable"}

\* The list with every check of unrecognised status turned into a 'fail'.
UnknownAsFail(cs) ==
    [i \in 1..Len(cs) |->
        IF cs[i].status \in KnownStatuses THEN cs[i]
        ELSE [cs[i] EXCEPT !.status = "fail"]]

\* C10: a check of unrecognised status is valued 0 and keeps its severity
\* weight in the denominator: the list scores what it would score with each
\* such check a 'fail', and a list of unrecognised checks alone scores 0.
C10_UnknownStatusIsFail ==
    spc = "scored" /\ (\E i \in 1..Len(checks) : checks[i].status \notin KnownStatuses) =>
        /\ score # null
        /\ IsRounded(score,
                     ClaimWeightedValues(UnknownAsFail(checks), ScorableIdx(checks)),
                     ClaimWeights(UnknownAsFail(checks), ScorableIdx(checks)))
        /\ (\A i \in 1..Len(checks) : checks[i].status \notin KnownStatuses) => score = 0

C10_Witness ==
    /\ spc = "scored"
    /\ checks = <<Check("check", "skipped", "critical"), Check("check", "pass", "low")>>
    /\ score = 14

-----------------------------------------------------------------------------
(* What the specification says of the Overall Aggregator, stated on its own *)
(* terms: the exclusion rules and importance table of section 4.2 (weights  *)
(* doubled) and sums over the indices of the categories that count.         *)

ClaimImportance2(name) ==
    CASE name \in {"Security & HTTPS", "Safety & Threats"}             -> 6
      [] name \in {"DNS & Domain", "Link Analysis"}                    -> 4
      [] name \in {"Performance", "Accessibility", "External Links"}   -> 3
      [] OTHER                                                         -> 2

\* Rule (a): status 'unavailable', or a null/undefined score.
ClaimUnavailable(cat) ==
    cat.status = "unavailable" \/ cat.score \in {null, undefined}

\* Rule (b): every check errored or unavailable.
ClaimAllChecksFailed(cat) ==
    \A k \in 1..Len(cat.checks) : cat.checks[k].status \in {"error", "unavailable"}

IncludedIdx(cats) ==
    {i \in 1..Len(cats) :
        /\ cats[i].jsType = "object"
        /\ ~ClaimUnavailable(cats[i])
        /\ ~ClaimAllChecksFailed(cats[i])}

RECURSIVE ClaimWeightedSum(_, _)
ClaimWeightedSum(cats, S) ==
    IF S = {} THEN 0
    ELSE LET i == CHOOSE j \in S : TRUE
         IN  cats[i].score * ClaimImportance2(cats[i].category)
             + ClaimWeightedSum(cats, S \ {i})

RECURSIVE ClaimTotalWeight(_, _)
ClaimTotalWeight(cats, S) ==
    IF S = {} THEN 0
    ELSE LET i == CHOOSE j \in S : TRUE
         IN  ClaimImportance2(cats[i].category) + ClaimTotalWeight(cats, S \ {i})

\* The list without its i-th entry.
RemoveAt(seq, i) == SubSeq(seq, 1, i - 1) \o SubSeq(seq, i + 1, Len(seq))

\* The entries of an excludedCategories list whose reason is in R.
WithReason(excluded, R) == SelectSeq(excluded, LAMBDA e : e.reason \in R)

\* The {name, reason} entries expected for the object entries satisfying P,
\* in order.
ExpectedExcluded(cats, P(_), Reason(_)) ==
    LET sel == SelectSeq(cats, LAMBDA c : c.jsType = "object" /\ P(c))
    IN  [k \in 1..Len(sel) |-> [name |-> sel[k].category, reason |-> Reason(sel[k])]]

\* C3: the overall score is round(weightedSum / totalWeight) over exactly the
\* non-excluded categories, and 0 when totalWeight is 0.
C3_OverallIsRoundedWeightedMean ==
    apc = "aggregated" =>
        LET S  == IncludedIdx(categories)
            ws == ClaimWeightedSum(categories, S)
            tw == ClaimTotalWeight(categories, S)
        IN  IF tw = 0 THEN overall.score = 0
            ELSE IsRounded(overall.score, ws, tw)

C3_Witness ==
    /\ apc = "aggregated"
    /\ categories = <<CategoryResult("Security & HTTPS", 100, "available", ErrorThenPass, FALSE),
                      CategoryResult("SEO & Meta", 35, "available", ErrorThenPass, FALSE)>>
    /\ overall.score = 84

ReasonA(cat) ==
    IF cat.status = "unavailable" THEN "Analysis unavailable"
    ELSE "No valid checks executed"

\* C4: a category of status 'unavailable' or of null/undefined score is left
\* out of the average, not counted as zero: it has no categoryScores entry,
\* the overall score is the same without it, and it is listed in
\* excludedCategories with 'Analysis unavailable' when its status is
\* 'unavailable' and 'No valid checks executed' otherwise.
C4_UnavailableIsExcluded ==
    apc = "aggregated" =>
        /\ \A i \in 1..Len(categories) :
              categories[i].jsType = "object" /\ ClaimUnavailable(categories[i]) =>
                 /\ calculateOverallScore(Arr(RemoveAt(categories, i))).score = overall.score
                 /\ calculateOverallScore(Arr(RemoveAt(categories, i))).breakdown.categoryScores
                       = overall.breakdown.categoryScores
        /\ overall.breakdown.includedCategories = Cardinality(IncludedIdx(categories))
        /\ WithReason(overall.breakdown.excludedCategories,
                      {"Analysis unavailable", "No valid checks executed"})
              = ExpectedExcluded(categories, ClaimUnavailable, ReasonA)

C4_Witness ==
    /\ apc = "aggregated"
    /\ categories = <<CategoryResult("Security & HTTPS", null, "absent", ErrorThenPass, FALSE),
                      CategoryResult("Performance", 100, "available", ErrorThenPass, FALSE)>>
    /\ overall.score = 100
    /\ overall.breakdown.excludedCategories =
          <<[name |-> "Security & HTTPS", reason |-> "No valid checks executed"]>>

ReasonB(cat) == "All checks failed or unavailable"

\* C5 as stated: every category whose checks all errored is listed with the
\* reason 'All checks failed or unavailable'.
C5_AllFailedListedWithReasonB ==
    apc = "aggregated" =>
        WithReason(overall.breakdown.excludedCategories, {"All checks failed or unavailable"})
           = ExpectedExcluded(categories, ClaimAllChecksFailed, ReasonB)

ClaimAllFailedOnly(cat) == ClaimAllChecksFailed(cat) /\ ~ClaimUnavailable(cat)

\* C5 amended: a category whose checks all errored is excluded even with a
\* numeric score: it has no categoryScores entry and the overall score is the
\* same without it; it is listed with 'All checks failed or unavailable' when
\* its status is not 'unavailable' and its score is numeric, and with the
\* reason of rule (a) otherwise.
C5_AllFailedIsExcluded ==
    apc = "aggregated" =>
        /\ \A i \in 1..Len(categories) :
              categories[i].jsType = "object" /\ ClaimAllChecksFailed(categories[i]) =>
                 /\ calculateOverallScore(Arr(RemoveAt(categories, i))).score = overall.score
                 /\ calculateOverallScore(Arr(RemoveAt(categories, i))).breakdown.categoryScores
                       = overall.breakdown.categoryScores
        /\ overall.breakdown.includedCategories = Cardinality(IncludedIdx(categories))
        /\ WithReason(overall.breakdown.excludedCategories, {"All checks failed or unavailable"})
              = ExpectedExcluded(categories, ClaimAllFailedOnly, ReasonB)
        /\ Len(overall.breakdown.excludedCategories)
              = Len(ExpectedExcluded(categories, ClaimAllFailedOnly, ReasonB))
                + Len(ExpectedExcluded(categories, ClaimUnavailable, ReasonA))

C5_Witness ==
    /\ apc = "aggregated"
    /\ categories = <<CategoryResult("Security & HTTPS", 100, "absent", ErrorOnly, FALSE),
                      CategoryResult("Performance", 35, "available", ErrorThenPass, FALSE)>>
    /\ overall.score = 35
    /\ overall.breakdown.excludedCategories =
          <<[name |-> "Security & HTTPS", reason |-> "All checks failed or unavailable"]>>

-----------------------------------------------------------------------------
(* What the specification says of the orchestrator *)

\* The category at position i of CheckerOrder came from checker CheckerOrder[i].
ResultOf(c) == settled[c]

\* C6: when a category in the response reports malwareDetected, the overall
\* score sent is the number 0, whatever the module computed from the
\* categories.
C6_MalwareForcesZero ==
    rpc = "done" /\ response.status = 200 /\ anyMalware(response.categories) =>
        response.overall.score = Num(0)

\* Malware found while the other five categories are perfect: the mean of the
\* category scores alone would be 83.
C6_Witness ==
    /\ rpc = "done" /\ response.status = 200
    /\ anyMalware(response.categories)
    /\ legacyCalculateOverallScore(response.categories) = Num(83)
    /\ response.overall.score = Num(0)

\* C7: a checker whose promise rejects does not abort the analysis, and its
\* place in the response is taken by an unavailable CategoryResult: status
\* 'unavailable', score null.
C7_RejectedBecomesUnavailable ==
    rpc = "done" =>
        \A c \in Checkers : promise[c] = "rejected" =>
            /\ response.status = 200
            /\ \E i \in 1..Len(response.categories) :
                  /\ response.categories[i] = ResultOf(c)
                  /\ response.categories[i].category = checkNameOf(c)
                  /\ response.categories[i].status = "unavailable"
                  /\ response.categories[i].score = null

\* C8: every CategoryResult handed to the aggregator has status 'unavailable'
\* exactly when its score is null.
C8_UnavailableIffNullScore ==
    \A c \in Checkers :
        ResultOf(c).jsType = "object" =>
            (ResultOf(c).status = "unavailable" <=> ResultOf(c).score = null)

-----------------------------------------------------------------------------
(* Severity weights, section 4.1 *)

\* critical 3, high 2, medium 1, low 0.5, doubled.
SeverityTable2 == [critical |-> 6, high |-> 4, medium |-> 2, low |-> 1]

\* A severity outside the table stands as 'medium'.
AsMedium(severity) ==
    IF severity \in DOMAIN SeverityTable2 THEN severity ELSE "medium"

\* The list with every missing or unrecognised severity turned into 'medium'.
MissingAsMedium(cs) ==
    [i \in 1..Len(cs) |-> [cs[i] EXCEPT !.severity = AsMedium(cs[i].severity)]]

\* C11: critical, high, medium, low weigh 3, 2, 1, 0.5 and a missing or
\* unrecognised severity weighs what medium weighs: a pass of severity a next
\* to a fail of severity b scores 100 * w(a) / (w(a) + w(b)) rounded, and any
\* list scores what it scores with each missing severity written 'medium'.
\* [pass of no severity, fail critical] scores 25.
C11_SeverityWeights ==
    spc = "scored" =>
        /\ Len(checks) = 2 /\ checks[1].status = "pass" /\ checks[2].status = "fail"
              => /\ score # null
                 /\ IsRounded(score,
                              100 * SeverityTable2[AsMedium(checks[1].severity)],
                              SeverityTable2[AsMedium(checks[1].severity)]
                              + SeverityTable2[AsMedium(checks[2].severity)])
        /\ score = calculateCategoryScore(MissingAsMedium(checks))
        /\ checks = <<Check("check", "pass", "none"), Check("check", "fail", "critical")>>
              => score = 25

C11_Witness ==
    /\ spc = "scored"
    /\ checks = <<Check("check", "pass", "none"), Check("check", "fail", "critical")>>
    /\ score = 25

-----------------------------------------------------------------------------
(* Importance weights, section 4.2 *)

\* The names of the importance table as the specification writes them.
ListedNames ==
    {"Security & HTTPS", "Safety & Threats", "DNS & Domain", "Link Analysis",
     "Performance", "Accessibility", "External Links", "SEO & Metadata",
     "WHOIS & Domain Info"}

\* The table with the accessibility category under the name its checker
\* returns; every other name weighs 1 (doubled).
EmittedImportance2(name) ==
    CASE name \in {"Security & HTTPS", "Safety & Threats"}                        -> 6
      [] name \in {"DNS & Domain", "Link Analysis"}                              -> 4
      [] name \in {"Performance", "Accessibility (WCAG 2.1)", "External Links"} -> 3
      [] name \in {"SEO & Metadata", "WHOIS & Domain Info"}                      -> 2
      [] OTHER                                                                    -> 2

RECURSIVE EmittedWeightedSum(_, _)
EmittedWeightedSum(cats, S) ==
    IF S = {} THEN 0
    ELSE LET i == CHOOSE j \in S : TRUE
         IN  cats[i].score * EmittedImportance2(cats[i].category)
             + EmittedWeightedSum(cats, S \ {i})

RECURSIVE EmittedTotalWeight(_, _)
EmittedTotalWeight(cats, S) ==
    IF S = {} THEN 0
    ELSE LET i == CHOOSE j \in S : TRUE
         IN  EmittedImportance2(cats[i].category) + EmittedTotalWeight(cats, S \ {i})

\* C12 as written: every category whose name is in the importance table
\* (Accessibility among them) is recorded with the weight listed for it.
C12_ListedNamesWeighAsListed ==
    apc = "aggregated" =>
        \A k \in 1..Len(overall.breakdown.categoryScores) :
            LET e == overall.breakdown.categoryScores[k]
            IN  e.name \in ListedNames => e.weight2 = ClaimImportance2(e.name)

\* C12: each category is weighted by the value listed for it, the
\* accessibility category under the name 'Accessibility (WCAG 2.1)' that its
\* checker returns; the bare name 'Accessibility', like 'SEO & Meta', has no
\* entry and weighs 1.  The recorded weights and the rounded mean agree.
C12_EmittedNamesWeighAsListed ==
    apc = "aggregated" /\ Len(categories) > 0 =>
        /\ Len(overall.breakdown.categoryScores) = Len(categories)
        /\ \A k \in 1..Len(categories) :
              /\ overall.breakdown.categoryScores[k].name = categories[k].category
              /\ overall.breakdown.categoryScores[k].weight2
                    = EmittedImportance2(categories[k].category)
        /\ IsRounded(overall.score,
                     EmittedWeightedSum(categories, 1..Len(categories)),
                     EmittedTotalWeight(categories, 1..Len(categories)))
        /\ \A k \in 1..Len(categories) :
              categories[k].category \in {"Accessibility", "SEO & Meta"}
                  => overall.breakdown.categoryScores[k].weight2 = 2

C12_Witness ==
    /\ apc = "aggregated"
    /\ categories = <<CategoryResult("Accessibility (WCAG 2.1)", 100, "available", ErrorThenPass, FALSE),
                      CategoryResult("SEO & Metadata", 35, "available", ErrorThenPass, FALSE)>>
    /\ overall.score = 74

\* C13: a category whose name is not in the importance table is included
\* with weight exactly 1 (2 when doubled): it is recorded with its score and
\* that weight, 'Unrecognized Category' with score 80 scores 80 alone and
\* round((80 * 1 + 35 * 3) / 4) = 46 next to Security & HTTPS with score 35.
C13_UnlistedNameWeighsOne ==
    apc = "aggregated" =>
        /\ \A k \in 1..Len(categories) :
              categories[k].category = "Unrecognized Category" =>
                  /\ Len(overall.breakdown.categoryScores) >= k
                  /\ overall.breakdown.categoryScores[k].name = "Unrecognized Category"
                  /\ overall.breakdown.categoryScores[k].score = categories[k].score
                  /\ overall.breakdown.categoryScores[k].weight2 = 2 * 1
        /\ categories = <<CategoryResult("Unrecognized Category", 80, "available", ErrorThenPass, FALSE)>>
              => overall.score = 80
        /\ categories = <<CategoryResult("Unrecognized Category", 80, "available", ErrorThenPass, FALSE),
                          CategoryResult("Security & HTTPS", 35, "available", ErrorThenPass, FALSE)>>
              => overall.score = 46

C13_Witness ==
    /\ apc = "aggregated"
    /\ categories = <<CategoryResult("Unrecognized Category", 80, "available", ErrorThenPass, FALSE),
                      CategoryResult("Security & HTTPS", 35, "available", ErrorThenPass, FALSE)>>
    /\ overall.score = 46
    /\ overall.breakdown.includedCategories = 2

-----------------------------------------------------------------------------
(* Input validation and malformed entries, sections 4.2 and 7 *)

\* C14: when the input is not a non-empty list (the empty list, null,
\* undefined, a number, a string, an object that is no array) the Aggregator
\* returns score 0 with includedCategories 0, totalCategories 0 and empty
\* excludedCategories and categoryScores.
C14_NoListGivesZero ==
    apc = "aggregated"
    /\ (IF argument.type = "array" THEN Len(argument.value) = 0 ELSE TRUE)
    => /\ overall.score = 0
       /\ overall.breakdown.includedCategories = 0
       /\ overall.breakdown.totalCategories = 0
       /\ overall.breakdown.excludedCategories = << >>
       /\ overall.breakdown.categoryScores = << >>

C14_Witness ==
    /\ apc = "aggregated"
    /\ argument.type = "null"
    /\ overall.score = 0
    /\ overall.breakdown.totalCategories = 0

\* The entries of the list that are objects, in order.
ObjectEntries(cats) == SelectSeq(cats, LAMBDA c : c.jsType = "object")

\* C15: entries that are no objects are skipped: a result is returned, its
\* score, its categoryScores and its excludedCategories are those of the list
\* without these entries, and the score is 0 when no entry that counts
\* remains.  [malformed, Security & HTTPS 35] scores 35.
C15_MalformedEntriesSkipped ==
    apc = "aggregated" /\ argument.type = "array"
    /\ (\E i \in 1..Len(categories) : categories[i].jsType # "object")
    => /\ overall.score \in 0..100
       /\ overall.score = calculateOverallScore(Arr(ObjectEntries(categories))).score
       /\ overall.breakdown.categoryScores
             = calculateOverallScore(Arr(ObjectEntries(categories))).breakdown.categoryScores
       /\ overall.breakdown.excludedCategories
             = calculateOverallScore(Arr(ObjectEntries(categories))).breakdown.excludedCategories
       /\ \A k \in 1..Len(overall.breakdown.categoryScores) :
             \E i \in IncludedIdx(categories) :
                 overall.breakdown.categoryScores[k].name = categories[i].category
       /\ IncludedIdx(categories) = {} => overall.score = 0
       /\ Cardinality(IncludedIdx(categories)) = 1 =>
             \A i \in IncludedIdx(categories) : overall.score = categories[i].score

C15_Witness ==
    /\ apc = "aggregated"
    /\ categories = <<Malformed,
                      CategoryResult("Security & HTTPS", 35, "available", ErrorThenPass, FALSE)>>
    /\ overall.score = 35
    /\ overall.breakdown.includedCategories = 1

-----------------------------------------------------------------------------
(* Ranges and extremes, sections 4.1, 4.2 and 8 *)

\* C16: for every list of check records the Category Scorer returns null or
\* an integer from 0 to 100; the older unweighted scorer returns an integer
\* from 0 to 100 for the same list.
C16_CategoryScoreInRange ==
    spc = "scored" =>
        /\ score = null \/ score \in 0..100
        /\ score = null <=> ScorableIdx(checks) = {}
        /\ legacyCalculateCategoryScore(checks) \in 0..100

C16_Witness ==
    /\ spc = "scored"
    /\ checks = <<Check("check", "pass", "critical"), Check("check", "warn", "low"),
                  Check("check", "error", "high")>>
    /\ score = 94
    /\ legacyCalculateCategoryScore(checks) = 50

\* Every entry is a category result whose score is null or an integer 0..100.
ScoresNullOrInRange(cats) ==
    \A i \in 1..Len(cats) :
        cats[i].jsType = "object" /\ (cats[i].score = null \/ cats[i].score \in 0..100)

\* C17: for a list of category results whose scores are null or integers from
\* 0 to 100 the overall score is an integer from 0 to 100, and it is 0 when
\* no category counts; the older plain mean of the same non-empty list is an
\* integer from 0 to 100 too, and 0 when every score is null.
C17_OverallScoreInRange ==
    apc = "aggregated" /\ argument.type = "array" /\ ScoresNullOrInRange(categories) =>
        /\ overall.score \in 0..100
        /\ IncludedIdx(categories) = {} => overall.score = 0
        /\ Len(categories) > 0 =>
              /\ legacyCalculateOverallScore(categories).type = "number"
              /\ legacyCalculateOverallScore(categories).value \in 0..100
              /\ (\A i \in 1..Len(categories) : categories[i].score = null)
                    => legacyCalculateOverallScore(categories).value = 0

C17_Witness ==
    /\ apc = "aggregated"
    /\ categories = <<CategoryResult("Performance", null, "unavailable", ErrorOnly, FALSE),
                      CategoryResult("Security & HTTPS", null, "absent", ErrorThenPass, FALSE)>>
    /\ overall.score = 0
    /\ overall.breakdown.includedCategories = 0

AllOfStatus(cs, st) == \A i \in 1..Len(cs) : cs[i].status = st

\* C18: whatever the severities, a list of N >= 1 checks that all passed
\* scores exactly 100 and a list of N >= 1 checks that all failed scores
\* exactly 0, with the severity-weighted scorer and with the older one.
C18_AllPassAllFail ==
    spc = "scored" /\ Len(checks) >= 1 =>
        /\ AllOfStatus(checks, "pass") =>
              score = 100 /\ legacyCalculateCategoryScore(checks) = 100
        /\ AllOfStatus(checks, "fail") =>
              score = 0 /\ legacyCalculateCategoryScore(checks) = 0

C18_Witness ==
    /\ spc = "scored"
    /\ checks = <<Check("check", "pass", "critical"), Check("check", "pass", "low"),
                  Check("check", "pass", "none")>>
    /\ score = 100

-----------------------------------------------------------------------------
(* The malware flag of the Safety category, section 3 *)

\* The statuses of the checks of that name in a result.
StatusesOfCheck(result, checkName) ==
    {result.checks[i].status :
        i \in {j \in 1..Len(result.checks) : result.checks[j].name = checkName}}

\* C19: the Safety result's malwareDetected is true exactly when its check
\* named 'Malware/Phishing Indicators' has status 'fail': it is false when
\* that check passed, and false when the analysis errored before the check
\* was produced (the result then has no check of that name).
C19_MalwareFlagIffCheckFailed ==
    promise["safety"] = "fulfilled" =>
        LET result == ResultOf("safety")
            found  == StatusesOfCheck(result, "Malware/Phishing Indicators")
        IN  /\ result.category = "Safety & Threats"
            /\ result.malwareDetected = TRUE <=> "fail" \in found
            /\ found = {"pass"} => result.malwareDetected = FALSE
            /\ found = {} => result.malwareDetected = FALSE /\ result.status = "unavailable"

C19_Witness ==
    /\ promise["safety"] = "fulfilled"
    /\ ResultOf("safety").status = "unavailable"
    /\ StatusesOfCheck(ResultOf("safety"), "Malware/Phishing Indicators") = {}
    /\ ResultOf("safety").malwareDetected = FALSE

-----------------------------------------------------------------------------
(* Score labels, section 4.3 *)

\* The label of section 4.3 for a number.
ClaimLabel(s) ==
    CASE s >= 90            -> "Excellent"
      [] 75 <= s /\ s < 90  -> "Good"
      [] 60 <= s /\ s < 75  -> "Fair"
      [] 45 <= s /\ s < 60  -> "Poor"
      [] s < 45             -> "Critical"

\* C20: a numeric score s is labelled 'Excellent' if s >= 90, 'Good' if
\* 75 <= s < 90, 'Fair' if 60 <= s < 75, 'Poor' if 45 <= s < 60 and
\* 'Critical' if s < 45 (89 Good, 74 Fair, 59 Poor, 44 Critical), by the
\* label function and by the older one alike; null and undefined are
\* labelled 'Not Analyzed'.
C20_ScoreLabels ==
    label # "" =>
        /\ labelScore.type = "number" =>
              /\ label = ClaimLabel(labelScore.value)
              /\ legacyGetScoreLabel(labelScore) = ClaimLabel(labelScore.value)
        /\ labelScore.type \in {"null", "undefined"} => label = "Not Analyzed"
        /\ labelScore = Num(90) => label = "Excellent"
        /\ labelScore \in {Num(89), Num(75)} => label = "Good"
        /\ labelScore \in {Num(74), Num(60)} => label = "Fair"
        /\ labelScore \in {Num(59), Num(45)} => label = "Poor"
        /\ labelScore = Num(44) => label = "Critical"

C20_Witness ==
    /\ labelScore = Num(89)
    /\ label = "Good"

-----------------------------------------------------------------------------
(* Orchestration, sections 5 and 6 *)

\* C21: the step in which the route aggregates and responds is taken only
\* when every checker started for the request has settled, fulfilled or
\* rejected, whatever the order of completion; the six results it aggregates
\* are the ones the checkers settled with, in the order of the Promise.all
\* array.
C21_AggregateAfterAllSettled ==
    [][rpc = "checking" /\ rpc' = "done" =>
          /\ \A c \in Checkers :
                promise[c] \in {"fulfilled", "rejected"} /\ settled[c] # NoResult
          /\ response'.status = 200
          /\ response'.categories = [i \in 1..Len(CheckerOrder) |-> settled[CheckerOrder[i]]]
      ]_vars

C21_Witness ==
    /\ rpc = "done" /\ response.status = 200
    /\ promise["seo"] = "rejected"
    /\ promise["safety"] = "fulfilled"
    /\ Len(response.categories) = 6

\* The response to a request for a site when nothing else is in flight: each
\* checker's safeCheck value for that site, compiled.
AloneResponse(st) ==
    respondWith(scoreModule, [c \in Checkers |-> safeCheck(c, scoreModule, st[c])])

\* C22: under every interleaving of the checker completions of two requests
\* in flight together, the response to each is the one it would get alone
\* for its own site, and what a request's checkers have settled with so far
\* is what its own site made of them.
C22_ConcurrentAnalysesIndependent ==
    \A r \in Requests :
        /\ reqpc[r] = "done" => responses[r] = AloneResponse(site[r])
        /\ reqpc[r] = "checking" =>
              \A c \in Checkers :
                  cells[r].promise[c] # "pending"
                      => cells[r].settled[c] = safeCheck(c, scoreModule, site[r][c])

\* Request 1 was answered while request 2, for another site, was half way.
C22_Witness ==
    /\ reqpc[1] = "done" /\ reqpc[2] = "checking"
    /\ site[1] # site[2]
    /\ site[1].safety = "malware"
    /\ cells[2].promise["security"] = "fulfilled"
    /\ cells[2].promise["safety"] = "pending"
    /\ responses[1].status = 200
    /\ responses[1] = AloneResponse(site[1])

\* C23: in every successful response overall.score is the numeric score
\* itself, a number from 0 to 100, neither an object nor NaN.
C23_OverallScoreIsANumber ==
    rpc = "done" /\ response.status = 200 =>
        /\ response.overall.score.type = "number"
        /\ response.overall.score.value \in 0..100

-----------------------------------------------------------------------------
\* C24: the summary score the legacy analyzer returns is the average of the
\* per-check credit (pass 100, warning 50, fail 0) rounded to a whole number
\* and bounded to 0..100; in particular all checks passed gives 100.
AverageCredit(summary) ==
    MathRound(summary.passed * 100 + summary.warnings * 50, summary.total_checks)

C24_SummaryScoreIsAverageCredit ==
    (legacyPc = "returned" /\ legacyResults.summary.total_checks > 0)
        => /\ legacyResults.summary.score = AverageCredit(legacyResults.summary)
           /\ legacyResults.summary.score \in 0..100
           /\ (legacyResults.summary.passed = legacyResults.summary.total_checks
                  => legacyResults.summary.score = 100)

-----------------------------------------------------------------------------
\* C26: while the category checks of one analysis run in parallel, none of
\* them mutates an object the others hold; the combined result changes only
\* in the orchestrator's step after all of them have finished.  In the
\* legacy analyzer legacyResults is this.results, the one object all six
\* runners reach through this.
C26_ParallelChecksShareNothing ==
    [][(legacyPc = "running" /\ legacyPc' = "running")
          => legacyResults' = legacyResults]_vars

-----------------------------------------------------------------------------
\* The checkers whose analyze failed at some step: the page fetch of the
\* outer try ("down"), or the DNS lookups ("poor").
SourceCheckers == Checkers \ {"seo"}

ClaimStepFailed(c, outcome) ==
    \/ outcome = "down"
    \/ c = "dns" /\ outcome = "poor"

hasErrorCheck(result) ==
    \E i \in 1..Len(result.checks) : result.checks[i].status = "error"

\* The outcome a fulfilled checker's result came from.
OutcomeOf(c) ==
    CHOOSE outcome \in Outcomes(c) : settled[c] = analyze(c, scoreModule, outcome)

-----------------------------------------------------------------------------
\* C27: whenever the result the Safety checker returns has malwareDetected
\* true, the score of that result is 0, whatever its other checks would
\* have scored.
C27_MalwareDetectedScoresZero ==
    (promise["safety"] = "fulfilled" /\ settled["safety"].malwareDetected = TRUE)
        => settled["safety"].score = 0

\* A detection beside a passed critical check: the scorer alone gives more
\* than 0.
C27_Witness ==
    /\ promise["safety"] = "fulfilled"
    /\ settled["safety"].malwareDetected = TRUE
    /\ settled["safety"].score = 0
    /\ importedCategoryScore(scoreModule, settled["safety"].checks) > 0
    /\ \E i \in 1..Len(settled["safety"].checks) :
          settled["safety"].checks[i].status = "pass"

-----------------------------------------------------------------------------
\* The orderings of a list.
Perms(n) == {p \in [1..n -> 1..n] : \A i, j \in 1..n : p[i] = p[j] => i = j}

Permuted(cats, p) == [i \in 1..Len(cats) |-> cats[p[i]]]

\* The contribution figures of a breakdown, by name and score.
ContributionFigures(result) ==
    {result.breakdown.categoryScores[i] :
        i \in 1..Len(result.breakdown.categoryScores)}

\* C28: the overall score does not depend on the order in which the
\* categories are given: every reordering of the list aggregates to the same
\* score (and the same number of included categories); only the contribution
\* figures of the breakdown may differ.
C28_OverallScoreOrderIndependent ==
    (apc = "aggregated" /\ isArray(argument)) =>
        \A p \in Perms(Len(argument.value)) :
            LET other == calculateOverallScore(Arr(Permuted(argument.value, p)))
            IN  /\ other.score = overall.score
                /\ other.breakdown.includedCategories
                      = overall.breakdown.includedCategories
                /\ other.breakdown.totalCategories
                      = overall.breakdown.totalCategories

\* Two included categories of different score whose contribution figures
\* change when their order is swapped.
C28_Witness ==
    /\ apc = "aggregated" /\ isArray(argument)
    /\ overall.breakdown.includedCategories = 2
    /\ overall.breakdown.categoryScores[1].score
          # overall.breakdown.categoryScores[2].score
    /\ \E p \in Perms(Len(argument.value)) :
          ContributionFigures(calculateOverallScore(Arr(Permuted(argument.value, p))))
              # ContributionFigures(overall)

-----------------------------------------------------------------------------
\* The names of the entries at the indices S, in list order.
NamesAt(cats, S) ==
    LET idx == SelectSeq([i \in 1..Len(cats) |-> i], LAMBDA i : i \in S)
    IN  [k \in 1..Len(idx) |-> categoryNameOf(cats[idx[k]])]

NamesOf(entries) == [k \in 1..Len(entries) |-> entries[k].name]

ObjectIdx(cats) == {i \in 1..Len(cats) : cats[i].jsType = "object"}

\* C29: for a non-empty list, includedCategories is the length of
\* categoryScores and totalCategories the length of the list; every entry
\* that is an object appears in exactly one of categoryScores and
\* excludedCategories, so the two lengths add up to totalCategories when no
\* entry is malformed.
C29_BreakdownCounts ==
    (apc = "aggregated" /\ isArray(argument) /\ Len(argument.value) > 0) =>
        LET cats == argument.value
            b    == overall.breakdown
        IN  /\ b.includedCategories = Len(b.categoryScores)
            /\ b.totalCategories = Len(cats)
            /\ NamesOf(b.categoryScores) = NamesAt(cats, IncludedIdx(cats))
            /\ NamesOf(b.excludedCategories)
                  = NamesAt(cats, ObjectIdx(cats) \ IncludedIdx(cats))
            /\ b.includedCategories + Len(b.excludedCategories)
                  = Cardinality(ObjectIdx(cats))
            /\ ObjectIdx(cats) = 1..Len(cats) =>
                  b.includedCategories + Len(b.excludedCategories) = b.totalCategories

\* One category scored and one excluded, none malformed.
C29_Witness ==
    /\ apc = "aggregated" /\ isArray(argument)
    /\ ObjectIdx(argument.value) = 1..Len(argument.value)
    /\ overall.breakdown.totalCategories = 2
    /\ overall.breakdown.includedCategories = 1
    /\ Len(overall.breakdown.excludedCategories) = 1

-----------------------------------------------------------------------------
\* C30: the label and colour of a successful response are those of the
\* overall score it carries, the score after the malware override: a score
\* forced to 0 by a detection is sent with 'Critical' and its colour, not
\* with the label of the score the categories would have given.
C30_LabelOfFinalScore ==
    (rpc = "done" /\ response.status = 200) =>
        /\ response.overall.label
              = importedScoreLabel(scoreModule, response.overall.score)
        /\ response.overall.color
              = importedScoreColor(scoreModule, response.overall.score)
        /\ response.overall.score.type = "number" =>
              response.overall.label = ClaimLabel(response.overall.score.value)
        /\ anyMalware(response.categories) =>
              /\ response.overall.score = Num(0)
              /\ response.overall.label = "Critical"
              /\ response.overall.color = "#dc2626"

\* A detection on a site whose categories alone would have been labelled
\* better than 'Critical'.
C30_Witness ==
    /\ rpc = "done" /\ response.status = 200
    /\ anyMalware(response.categories)
    /\ response.overall.score = Num(0)
    /\ response.overall.label = "Critical"
    /\ importedScoreLabel(scoreModule,
                          importedOverallScore(scoreModule, response.categories))
          # "Critical"

=============================================================================
